---- MODULE Spec2Model ----
(***************************************************************************)
(* Model of src/src/buffer.cpp: the VESC buffer codec.  The append_*       *)
(* functions pack integers, booleans and floats into a byte buffer at a    *)
(* cursor; the get_* functions (legacy, limit 1024, and _safe, limit       *)
(* buffer_len) read them back behind a bounds check.                       *)
(*                                                                         *)
(* Representation.  TLC integers are 32 bits wide, so                      *)
(*   - an int32_t is an Int in INT32_MIN..INT32_MAX; every addition that   *)
(*     can leave that range is done by AddWrap, which tests before adding; *)
(*   - a uint32_t is the record [hi, lo] of its two 16-bit halves;         *)
(*   - a float is the record [neg, E, frac] of its binary32 fields         *)
(*     (E = 255: infinity when frac = 0, NaN otherwise).                   *)
(* A function of the source is an operator of its name that returns the    *)
(* SET of outcomes the call can have: [ret, index, reads] for a getter     *)
(* (value returned, value left in *index, indices of buffer[] read) and    *)
(* [mem, index] for an append.  The set has more than one element only     *)
(* where the C code has undefined behaviour.                               *)
(***************************************************************************)
EXTENDS Integers, Sequences, FiniteSets, TLC

VARIABLES buffer, buffer_len, index, last, fields, decoded, phase, calls

vars == <<buffer, buffer_len, index, last, fields, decoded, phase, calls>>

\* ------------------------------------------------------------- bounds
\* Largest length of a short buffer handed to the _safe getters.
MaxSafeLen == 5
\* Largest number of fields a producer appends in one message.
MaxFields == 2
\* Largest number of calls a free consumer makes on one buffer.
MaxCalls == 2
\* Largest number of float32_auto fields in one message.
MaxAutoFields == 1

\* ---------------------------------------------------------- constants
\* The hardcoded limit of the legacy getters.
LegacyLimit == 1024

INT32_MAX == 2147483647
INT32_MIN == -2147483647 - 1

Pow2(n) == 2 ^ n

\* ------------------------------------------------- int32_t arithmetic
\* idx + k in int32_t overflows (k > 0).
Overflows(idx, k) == idx > INT32_MAX - k

\* The value an int32_t holds after `+= k` (k > 0): the sum, reduced
\* modulo 2^32 into INT32_MIN..INT32_MAX when it overflows.
AddWrap(idx, k) ==
    IF Overflows(idx, k) THEN INT32_MIN + (k - 1 - (INT32_MAX - idx))
    ELSE idx + k

\* The outcomes of the test `idx + k >= lim` on int32_t operands.  Signed
\* overflow is undefined: a build that adds and compares sees the wrapped
\* (negative) sum, a build that folds the test to idx >= lim - k sees the
\* mathematical one.
AddGE(idx, k, lim) ==
    IF Overflows(idx, k) THEN {AddWrap(idx, k) >= lim, TRUE}
    ELSE {idx + k >= lim}

\* The outcomes of the test `idx + k < lim`.
AddLT(idx, k, lim) == {~b : b \in AddGE(idx, k, lim)}

\* ------------------------------------------------------------ buffers
NullBuffer == [null |-> TRUE, mem |-> <<>>]

\* A buffer of n bytes: the bytes of pat, repeated from offset shift.
PatternMem(pat, shift, n) ==
    [i \in 0..(n - 1) |-> pat[((i + shift) % Len(pat)) + 1]]

\* What a read of a byte outside the object may yield.
StrayBytes == {0, 1, 255}

\* The outcomes of reading buffer[i].
ReadByte(b, i) == IF i \in DOMAIN b.mem THEN {b.mem[i]} ELSE StrayBytes

\* ------------------------------------------------- integer conversions
\* (int16_t) of a value in 0..65535.
ToInt16(u) == IF u >= 32768 THEN u - 65536 ELSE u

\* (uint8_t)(number >> s) of a signed or unsigned number that fits in Int:
\* >> of a negative number is the arithmetic shift, \div floors.
ByteAt(number, s) == (number \div Pow2(s)) % 256

\* (int32_t) of the word b0 b1 b2 b3, most significant byte first.
ToInt32(b0, b1, b2, b3) ==
    (IF b0 >= 128 THEN b0 - 256 ELSE b0) * 16777216 + b1 * 65536 + b2 * 256 + b3

\* The uint32_t word b0 b1 b2 b3.
ToUint32(b0, b1, b2, b3) == [hi |-> b0 * 256 + b1, lo |-> b2 * 256 + b3]

U32Zero == [hi |-> 0, lo |-> 0]

\* -------------------------------------------------------------- floats
FZero == [neg |-> FALSE, E |-> 0, frac |-> 0]
FNaN == [neg |-> FALSE, E |-> 255, frac |-> 4194304]
FInf(neg) == [neg |-> neg, E |-> 255, frac |-> 0]

isfinite(f) == f.E # 255
IsNaN(f) == f.E = 255 /\ f.frac # 0
\* f == 0.0f : true of both zeros.
FIsZero(f) == f.E = 0 /\ f.frac = 0

\* 2^k as a float, k in -126..127.
FPow2(k) == [neg |-> FALSE, E |-> k + 127, frac |-> 0]

\* floor(log2(a)) for 1 <= a < 2^31.
RECURSIVE Log2(_)
Log2(a) == IF a < 2 THEN 0 ELSE 1 + Log2(a \div 2)

\* (float) of an int32_t: round to nearest, ties to even, to 24 bits.
IntToFloat(n) ==
    IF n = 0 THEN FZero
    ELSE IF n = INT32_MIN THEN [neg |-> TRUE, E |-> 158, frac |-> 0]
    ELSE
      LET a == IF n < 0 THEN -n ELSE n
          p == Log2(a)
      IN  IF p <= 23
            THEN [neg |-> n < 0, E |-> 127 + p,
                  frac |-> a * Pow2(23 - p) - 8388608]
            ELSE
              LET s    == p - 23
                  q    == a \div Pow2(s)
                  r    == a % Pow2(s)
                  half == Pow2(s - 1)
                  up   == r > half \/ (r = half /\ q % 2 = 1)
                  q2   == IF up THEN q + 1 ELSE q
              IN  IF q2 = 16777216
                    THEN [neg |-> n < 0, E |-> 127 + p + 1, frac |-> 0]
                    ELSE [neg |-> n < 0, E |-> 127 + p, frac |-> q2 - 8388608]

\* m / 2^s rounded to nearest, ties to even (s >= 1, 0 <= m < 2^24).
RoundShift(m, s) ==
    IF s > 25 THEN 0
    ELSE LET q    == m \div Pow2(s)
             r    == m % Pow2(s)
             half == Pow2(s - 1)
         IN  IF r > half \/ (r = half /\ q % 2 = 1) THEN q + 1 ELSE q

\* The float of sign neg and value m * 2^(E - 150), 2^23 <= m < 2^24, for
\* any integer E: the normal number of biased exponent E, infinity when
\* E >= 255, and a subnormal (or the least normal, or zero) when E <= 0.
FMake(neg, E, m) ==
    IF E >= 255 THEN [neg |-> neg, E |-> 255, frac |-> 0]
    ELSE IF E >= 1 THEN [neg |-> neg, E |-> E, frac |-> m - 8388608]
    ELSE LET f == RoundShift(m, 1 - E)
         IN  IF f = 8388608 THEN [neg |-> neg, E |-> 1, frac |-> 0]
             ELSE [neg |-> neg, E |-> 0, frac |-> f]

\* x / scale in float arithmetic, for x zero or normal.  A finite non-zero
\* scale is a power of two (frac = 0, E in 1..254) in this model, so that
\* the quotient is exact up to the final rounding: the exponents subtract.
FDiv(x, scale) ==
    IF IsNaN(x) \/ IsNaN(scale) THEN FNaN
    ELSE IF FIsZero(scale)
      THEN IF FIsZero(x) THEN FNaN
           ELSE [neg |-> x.neg # scale.neg, E |-> 255, frac |-> 0]
    ELSE IF scale.E = 255 \/ FIsZero(x)
      THEN [neg |-> x.neg # scale.neg, E |-> 0, frac |-> 0]
    ELSE FMake(x.neg # scale.neg, x.E - (scale.E - 127), 8388608 + x.frac)

\* frexpf(f, &e) of a finite float: [neg, m, e] with f = +-(m / 2^24) * 2^e
\* and 2^23 <= m < 2^24, or m = 0 and e = 0 for a zero.
frexpf(f) ==
    IF FIsZero(f) THEN [neg |-> f.neg, m |-> 0, e |-> 0]
    ELSE IF f.E >= 1 THEN [neg |-> f.neg, m |-> 8388608 + f.frac, e |-> f.E - 126]
    ELSE LET k == 23 - Log2(f.frac)
         IN  [neg |-> f.neg, m |-> f.frac * Pow2(k), e |-> -125 - k]

\* ldexpf(sig, e) for sig = +-(m / 2^24), m = 0 or 2^23 <= m < 2^24.
ldexpf(neg, m, e) ==
    IF m = 0 THEN [neg |-> neg, E |-> 0, frac |-> 0]
    ELSE FMake(neg, e + 126, m)

\* fabsf(f) < 1.5e-38.  The least float that is >= 1.5e-38 has the fields
\* E = 1, frac = 2315750 (1.500000043e-38), so the test is a comparison of
\* (E, frac) with that pair.
BelowFlushLimit(f) == f.E = 0 \/ (f.E = 1 /\ f.frac < 2315750)

\* ------------------------------------------------------ call outcomes
IndexRef(v) == [null |-> FALSE, val |-> v]
NullIndex == [null |-> TRUE, val |-> 0]

Out(ret, idx, reads) == [ret |-> ret, index |-> idx, reads |-> reads]

\* The outcomes of reading the big-endian 16-bit word at i.
Read16(b, i) ==
    {b0 * 256 + b1 : b0 \in ReadByte(b, i), b1 \in ReadByte(b, AddWrap(i, 1))}

\* The outcomes of reading the four bytes at i, in order.
Read32(b, i) ==
    {<<b0, b1, b2, b3>> :
        b0 \in ReadByte(b, i), b1 \in ReadByte(b, AddWrap(i, 1)),
        b2 \in ReadByte(b, AddWrap(i, 2)), b3 \in ReadByte(b, AddWrap(i, 3))}

Span(i, w) == {AddWrap(i, k) : k \in 1..(w - 1)} \cup {i}

\* ------------------------------------------------------ legacy getters
buffer_get_int16(b, ix) ==
    IF b.null \/ ix.null \/ ix.val < 0
      THEN {Out(0, IF ix.null THEN ix.val ELSE LegacyLimit, {})}
      ELSE UNION {
             IF ge THEN {Out(0, LegacyLimit, {})}
             ELSE {Out(ToInt16(u), AddWrap(ix.val, 2), Span(ix.val, 2)) :
                      u \in Read16(b, ix.val)}
             : ge \in AddGE(ix.val, 1, LegacyLimit)}

buffer_get_uint16(b, ix) ==
    IF b.null \/ ix.null \/ ix.val < 0
      THEN {Out(0, IF ix.null THEN ix.val ELSE LegacyLimit, {})}
      ELSE UNION {
             IF ge THEN {Out(0, LegacyLimit, {})}
             ELSE {Out(u, AddWrap(ix.val, 2), Span(ix.val, 2)) :
                      u \in Read16(b, ix.val)}
             : ge \in AddGE(ix.val, 1, LegacyLimit)}

\* buffer_get_int32 with the bounds test off by one: (*index) + 4 >= 1024.
buffer_get_int32_strict(b, ix) ==
    IF b.null \/ ix.null \/ ix.val < 0
      THEN {Out(0, IF ix.null THEN ix.val ELSE LegacyLimit, {})}
      ELSE UNION {
             IF ge THEN {Out(0, LegacyLimit, {})}
             ELSE {Out(ToInt32(w[1], w[2], w[3], w[4]), AddWrap(ix.val, 4),
                       Span(ix.val, 4)) : w \in Read32(b, ix.val)}
             : ge \in AddGE(ix.val, 4, LegacyLimit)}

buffer_get_int32(b, ix) ==
    IF b.null \/ ix.null \/ ix.val < 0
      THEN {Out(0, IF ix.null THEN ix.val ELSE LegacyLimit, {})}
      ELSE UNION {
             IF ge THEN {Out(0, LegacyLimit, {})}
             ELSE {Out(ToInt32(w[1], w[2], w[3], w[4]), AddWrap(ix.val, 4),
                       Span(ix.val, 4)) : w \in Read32(b, ix.val)}
             : ge \in AddGE(ix.val, 3, LegacyLimit)}

buffer_get_uint32(b, ix) ==
    IF b.null \/ ix.null \/ ix.val < 0
      THEN {Out(U32Zero, IF ix.null THEN ix.val ELSE LegacyLimit, {})}
      ELSE UNION {
             IF ge THEN {Out(U32Zero, LegacyLimit, {})}
             ELSE {Out(ToUint32(w[1], w[2], w[3], w[4]), AddWrap(ix.val, 4),
                       Span(ix.val, 4)) : w \in Read32(b, ix.val)}
             : ge \in AddGE(ix.val, 3, LegacyLimit)}

buffer_get_float16(b, scale, ix) ==
    {Out(FDiv(IntToFloat(o.ret), scale), o.index, o.reads) :
        o \in buffer_get_int16(b, ix)}

buffer_get_float32(b, scale, ix) ==
    IF b.null \/ ix.null THEN {Out(FZero, ix.val, {})}
    ELSE IF FIsZero(scale) \/ ~isfinite(scale)
      THEN {Out(FZero, AddWrap(ix.val, 4), {})}
    ELSE {LET result == FDiv(IntToFloat(o.ret), scale)
          IN  Out(IF ~isfinite(result) THEN FZero ELSE result, o.index, o.reads) :
             o \in buffer_get_int32(b, ix)}

buffer_get_float32_auto(b, ix) ==
    {LET res    == o.ret
         e0     == (res.hi \div 128) % 256
         sig_i  == (res.hi % 128) * 65536 + res.lo
         neg    == res.hi >= 32768
         nz     == e0 # 0 \/ sig_i # 0
         m      == IF nz THEN sig_i + 8388608 ELSE 0
         e      == IF nz THEN e0 - 126 ELSE e0
         result == ldexpf(neg, m, e)
     IN  Out(IF ~isfinite(result) THEN FZero ELSE result, o.index, o.reads) :
        o \in buffer_get_uint32(b, ix)}

buffer_get_bool(b, ix) ==
    IF b.null \/ ix.null \/ ix.val < 0 \/ ix.val >= LegacyLimit
      THEN {Out(FALSE, IF ix.null THEN ix.val ELSE AddWrap(ix.val, 1), {})}
      ELSE {Out(v = 1, AddWrap(ix.val, 1), {ix.val}) : v \in ReadByte(b, ix.val)}

\* -------------------------------------------------------- safe getters
buffer_get_int16_safe(b, ix, len) ==
    IF b.null \/ ix.null \/ ix.val < 0
      THEN {Out(0, IF ix.null THEN ix.val ELSE len, {})}
      ELSE UNION {
             IF ge THEN {Out(0, len, {})}
             ELSE {Out(ToInt16(u), AddWrap(ix.val, 2), Span(ix.val, 2)) :
                      u \in Read16(b, ix.val)}
             : ge \in AddGE(ix.val, 1, len)}

buffer_get_uint16_safe(b, ix, len) ==
    IF b.null \/ ix.null \/ ix.val < 0
      THEN {Out(0, IF ix.null THEN ix.val ELSE len, {})}
      ELSE UNION {
             IF ge THEN {Out(0, len, {})}
             ELSE {Out(u, AddWrap(ix.val, 2), Span(ix.val, 2)) :
                      u \in Read16(b, ix.val)}
             : ge \in AddGE(ix.val, 1, len)}

buffer_get_int32_safe(b, ix, len) ==
    IF b.null \/ ix.null \/ ix.val < 0
      THEN {Out(0, IF ix.null THEN ix.val ELSE len, {})}
      ELSE UNION {
             IF ge THEN {Out(0, len, {})}
             ELSE {Out(ToInt32(w[1], w[2], w[3], w[4]), AddWrap(ix.val, 4),
                       Span(ix.val, 4)) : w \in Read32(b, ix.val)}
             : ge \in AddGE(ix.val, 3, len)}

buffer_get_uint32_safe(b, ix, len) ==
    IF b.null \/ ix.null \/ ix.val < 0
      THEN {Out(U32Zero, IF ix.null THEN ix.val ELSE len, {})}
      ELSE UNION {
             IF ge THEN {Out(U32Zero, len, {})}
             ELSE {Out(ToUint32(w[1], w[2], w[3], w[4]), AddWrap(ix.val, 4),
                       Span(ix.val, 4)) : w \in Read32(b, ix.val)}
             : ge \in AddGE(ix.val, 3, len)}

buffer_get_float16_safe(b, scale, ix, len) ==
    {Out(FDiv(IntToFloat(o.ret), scale), o.index, o.reads) :
        o \in buffer_get_int16_safe(b, ix, len)}

buffer_get_float32_safe(b, scale, ix, len) ==
    IF FIsZero(scale) \/ ~isfinite(scale)
      THEN IF ix.null THEN {Out(FZero, ix.val, {})}
           ELSE {Out(FZero, IF lt THEN AddWrap(ix.val, 4) ELSE ix.val, {}) :
                    lt \in AddLT(ix.val, 3, len)}
      ELSE {LET result == FDiv(IntToFloat(o.ret), scale)
            IN  Out(IF ~isfinite(result) THEN FZero ELSE result, o.index, o.reads) :
               o \in buffer_get_int32_safe(b, ix, len)}

buffer_get_float32_auto_safe(b, ix, len) ==
    {LET res    == o.ret
         e0     == (res.hi \div 128) % 256
         sig_i  == (res.hi % 128) * 65536 + res.lo
         neg    == res.hi >= 32768
         nz     == e0 # 0 \/ sig_i # 0
         m      == IF nz THEN sig_i + 8388608 ELSE 0
         e      == IF nz THEN e0 - 126 ELSE e0
         result == ldexpf(neg, m, e)
     IN  Out(IF ~isfinite(result) THEN FZero ELSE result, o.index, o.reads) :
        o \in buffer_get_uint32_safe(b, ix, len)}

\* buffer_get_bool_safe with every non-zero byte decoded as true.
buffer_get_bool_safe_nonzero(b, ix, len) ==
    IF b.null \/ ix.null \/ ix.val < 0 \/ ix.val >= len
      THEN {Out(FALSE,
                IF ~ix.null /\ ix.val < len THEN AddWrap(ix.val, 1) ELSE ix.val,
                {})}
      ELSE {Out(v # 0, AddWrap(ix.val, 1), {ix.val}) : v \in ReadByte(b, ix.val)}

buffer_get_bool_safe(b, ix, len) ==
    IF b.null \/ ix.null \/ ix.val < 0 \/ ix.val >= len
      THEN {Out(FALSE,
                IF ~ix.null /\ ix.val < len THEN AddWrap(ix.val, 1) ELSE ix.val,
                {})}
      ELSE {Out(v = 1, AddWrap(ix.val, 1), {ix.val}) : v \in ReadByte(b, ix.val)}

\* ------------------------------------------------------------- appends
\* buffer[i] = v, as a new buffer.
Store(b, i, v) == [b EXCEPT !.mem = [@ EXCEPT ![i] = v]]

App(b, idx) == [buffer |-> b, index |-> idx]

\* buffer_append_int16 with the low byte written first.
buffer_append_int16_swapped(b, number, idx) ==
    LET b1 == Store(b, idx, ByteAt(number, 0))
        b2 == Store(b1, idx + 1, ByteAt(number, 8))
    IN  App(b2, idx + 2)

buffer_append_int16(b, number, idx) ==
    LET b1 == Store(b, idx, ByteAt(number, 8))
        b2 == Store(b1, idx + 1, ByteAt(number, 0))
    IN  App(b2, idx + 2)

buffer_append_uint16(b, number, idx) ==
    LET b1 == Store(b, idx, ByteAt(number, 8))
        b2 == Store(b1, idx + 1, ByteAt(number, 0))
    IN  App(b2, idx + 2)

buffer_append_int32(b, number, idx) ==
    LET b1 == Store(b, idx, ByteAt(number, 24))
        b2 == Store(b1, idx + 1, ByteAt(number, 16))
        b3 == Store(b2, idx + 2, ByteAt(number, 8))
        b4 == Store(b3, idx + 3, ByteAt(number, 0))
    IN  App(b4, idx + 4)

\* number is a uint32_t, [hi, lo].
buffer_append_uint32(b, number, idx) ==
    LET b1 == Store(b, idx, ByteAt(number.hi, 8))
        b2 == Store(b1, idx + 1, ByteAt(number.hi, 0))
        b3 == Store(b2, idx + 2, ByteAt(number.lo, 8))
        b4 == Store(b3, idx + 3, ByteAt(number.lo, 0))
    IN  App(b4, idx + 4)

\* buffer_append_float32_auto with the exponent biased by 127.
buffer_append_float32_auto_bias127(b, number, idx) ==
    LET flushed == IF BelowFlushLimit(number) THEN FZero ELSE number
        fr      == frexpf(flushed)
        big     == fr.m >= 8388608
        sig_i   == IF big THEN fr.m - 8388608 ELSE 0
        e       == IF big THEN fr.e + 127 ELSE fr.e
        word    == (e % 256) * 8388608 + (sig_i % 8388608)
        res     == [hi |-> word \div 65536
                            + (IF fr.neg /\ fr.m # 0 THEN 32768 ELSE 0),
                    lo |-> word % 65536]
    IN  buffer_append_uint32(b, res, idx)

buffer_append_float32_auto(b, number, idx) ==
    LET flushed == IF BelowFlushLimit(number) THEN FZero ELSE number
        fr      == frexpf(flushed)
        big     == fr.m >= 8388608
        sig_i   == IF big THEN fr.m - 8388608 ELSE 0
        e       == IF big THEN fr.e + 126 ELSE fr.e
        word    == (e % 256) * 8388608 + (sig_i % 8388608)
        res     == [hi |-> word \div 65536
                            + (IF fr.neg /\ fr.m # 0 THEN 32768 ELSE 0),
                    lo |-> word % 65536]
    IN  buffer_append_uint32(b, res, idx)

buffer_append_bool(b, value, idx) ==
    IF value = TRUE THEN App(Store(b, idx, 1), idx + 1)
    ELSE App(Store(b, idx, 0), idx + 1)

\* ------------------------------------------------------------- inputs
\* The byte pattern a received buffer is filled with.
BytePattern == <<0, 1, 255, 128, 2, 127>>
Shifts == {2}

\* Buffer lengths: empty, one byte, a short one and the legacy 1024 bytes.
BufferLens == {0, 1, MaxSafeLen, LegacyLimit}

\* Cursor values a caller may hand in: any int32_t, sampled below zero,
\* around a short buffer, around 1024 and up to INT32_MAX.
CursorSamples ==
    {INT32_MIN, -3, -1} \cup (0..(MaxSafeLen + 1))
      \cup ((LegacyLimit - 4)..(LegacyLimit + 1))
      \cup {INT32_MAX - k : k \in 0..4}

\* Scale arguments: zero, NaN, infinity, 1.0, -4.0 and 2^-126.
Scales ==
    {FZero, FNaN, FInf(FALSE), FPow2(0),
     [neg |-> TRUE, E |-> 129, frac |-> 0], FPow2(-126)}

\* Values a producer appends.
Int16Samples == {-32768, -2, 0, 258, 32767}
Uint16Samples == {0, 513, 65535}
Int32Samples == {INT32_MIN, -2, 16909060, INT32_MAX}
Uint32Samples ==
    {[hi |-> 0, lo |-> 0], [hi |-> 258, lo |-> 772], [hi |-> 65535, lo |-> 65534]}
\* Finite floats: zeros, subnormals, the normals on both sides of 1.5e-38,
\* 1.0-sized ones and the largest, of both signs.
FloatSamples ==
    {[neg |-> n, E |-> e, frac |-> f] :
        n \in BOOLEAN, e \in {0, 1, 2, 127, 254},
        f \in {0, 1, 2315749, 2315750, 4194304, 8388607}}

GetOps == {"int16", "uint16", "int32", "uint32", "float16", "float32",
           "float32_auto", "bool"}
AppendOps == {"append_" \o t : t \in GetOps}

NoCall ==
    [op |-> "none", family |-> "none", scale |-> FZero, c0 |-> 0,
     ixnull |-> FALSE, limit |-> 0, ret |-> 0, reads |-> {}]

\* ---------------------------------------------------------------- state
\* buffer      the caller's buffer: [null, mem], mem the bytes at 0..len-1
\* buffer_len  its length, the limit handed to the _safe getters
\* index       the caller's cursor variable
\* last        the last codec call: its inputs and its outcome
\* fields      the fields a producer has appended: [type, value, start, end]
\* decoded     the number of those fields the consumer has read back
\* phase       "free": a consumer decodes a received buffer;
\*             "encode", "decode": a producer fills it, a consumer reads it
\* calls       the number of calls made in phase "free"
Init ==
    /\ buffer_len \in BufferLens
    /\ buffer \in {NullBuffer} \cup
         {[null |-> FALSE, mem |-> PatternMem(BytePattern, sh, buffer_len)] :
             sh \in Shifts}
    /\ index \in CursorSamples
    /\ last = NoCall
    /\ fields = <<>>
    /\ decoded = 0
    /\ phase = "free"
    /\ calls = 0

\* The legacy getters take the buffer to be 1024 bytes long.
LegacyReady == buffer.null \/ buffer_len = LegacyLimit

\* The cursor arguments of a call: &index, or NULL from a free caller.
IndexArgs ==
    IF phase = "free" THEN {IndexRef(index), NullIndex} ELSE {IndexRef(index)}

\* The consumer may call the getter of type t: any in phase "free", the
\* one of the next appended field in phase "decode".
MayGet(t) ==
    \/ phase = "free" /\ calls < MaxCalls
    \/ phase = "decode" /\ decoded < Len(fields) /\ fields[decoded + 1].type = t

\* A getter call with cursor argument ix and outcomes outs.
Get(op, family, scale, limit, ix, outs) ==
    \E o \in outs :
        /\ index' = IF ix.null THEN index ELSE o.index
        /\ last' = [op |-> op, family |-> family, scale |-> scale,
                    c0 |-> index, ixnull |-> ix.null, limit |-> limit,
                    ret |-> o.ret, reads |-> o.reads]
        /\ decoded' = IF phase = "decode" THEN decoded + 1 ELSE decoded
        /\ calls' = IF phase = "free" THEN calls + 1 ELSE calls
        /\ UNCHANGED <<buffer, buffer_len, fields, phase>>

Call_buffer_get_int16 ==
    /\ LegacyReady /\ MayGet("int16")
    /\ \E ix \in IndexArgs :
          Get("int16", "legacy", FZero, LegacyLimit, ix, buffer_get_int16(buffer, ix))

Call_buffer_get_uint16 ==
    /\ LegacyReady /\ MayGet("uint16")
    /\ \E ix \in IndexArgs :
          Get("uint16", "legacy", FZero, LegacyLimit, ix, buffer_get_uint16(buffer, ix))

Call_buffer_get_int32 ==
    /\ LegacyReady /\ MayGet("int32")
    /\ \E ix \in IndexArgs :
          Get("int32", "legacy", FZero, LegacyLimit, ix, buffer_get_int32(buffer, ix))

Call_buffer_get_uint32 ==
    /\ LegacyReady /\ MayGet("uint32")
    /\ \E ix \in IndexArgs :
          Get("uint32", "legacy", FZero, LegacyLimit, ix, buffer_get_uint32(buffer, ix))

Call_buffer_get_float16 ==
    /\ LegacyReady /\ MayGet("float16")
    /\ \E ix \in IndexArgs, scale \in Scales :
          Get("float16", "legacy", scale, LegacyLimit, ix,
              buffer_get_float16(buffer, scale, ix))

Call_buffer_get_float32 ==
    /\ LegacyReady /\ MayGet("float32")
    /\ \E ix \in IndexArgs, scale \in Scales :
          Get("float32", "legacy", scale, LegacyLimit, ix,
              buffer_get_float32(buffer, scale, ix))

Call_buffer_get_float32_auto ==
    /\ LegacyReady /\ MayGet("float32_auto")
    /\ \E ix \in IndexArgs :
          Get("float32_auto", "legacy", FZero, LegacyLimit, ix,
              buffer_get_float32_auto(buffer, ix))

Call_buffer_get_bool ==
    /\ LegacyReady /\ MayGet("bool")
    /\ \E ix \in IndexArgs :
          Get("bool", "legacy", FZero, LegacyLimit, ix, buffer_get_bool(buffer, ix))

Call_buffer_get_int16_safe ==
    /\ MayGet("int16")
    /\ \E ix \in IndexArgs :
          Get("int16", "safe", FZero, buffer_len, ix,
              buffer_get_int16_safe(buffer, ix, buffer_len))

Call_buffer_get_uint16_safe ==
    /\ MayGet("uint16")
    /\ \E ix \in IndexArgs :
          Get("uint16", "safe", FZero, buffer_len, ix,
              buffer_get_uint16_safe(buffer, ix, buffer_len))

Call_buffer_get_int32_safe ==
    /\ MayGet("int32")
    /\ \E ix \in IndexArgs :
          Get("int32", "safe", FZero, buffer_len, ix,
              buffer_get_int32_safe(buffer, ix, buffer_len))

Call_buffer_get_uint32_safe ==
    /\ MayGet("uint32")
    /\ \E ix \in IndexArgs :
          Get("uint32", "safe", FZero, buffer_len, ix,
              buffer_get_uint32_safe(buffer, ix, buffer_len))

Call_buffer_get_float16_safe ==
    /\ MayGet("float16")
    /\ \E ix \in IndexArgs, scale \in Scales :
          Get("float16", "safe", scale, buffer_len, ix,
              buffer_get_float16_safe(buffer, scale, ix, buffer_len))

Call_buffer_get_float32_safe ==
    /\ MayGet("float32")
    /\ \E ix \in IndexArgs, scale \in Scales :
          Get("float32", "safe", scale, buffer_len, ix,
              buffer_get_float32_safe(buffer, scale, ix, buffer_len))

Call_buffer_get_float32_auto_safe ==
    /\ MayGet("float32_auto")
    /\ \E ix \in IndexArgs :
          Get("float32_auto", "safe", FZero, buffer_len, ix,
              buffer_get_float32_auto_safe(buffer, ix, buffer_len))

Call_buffer_get_bool_safe ==
    /\ MayGet("bool")
    /\ \E ix \in IndexArgs :
          Get("bool", "safe", FZero, buffer_len, ix,
              buffer_get_bool_safe(buffer, ix, buffer_len))

\* An append call of width w: the appends check nothing, so the caller
\* keeps the write inside the buffer.
MayAppend(w, max) ==
    /\ ~buffer.null /\ index >= 0 /\ index <= buffer_len - w
    /\ Len(fields) < max
    /\ phase = "encode" \/ (phase = "free" /\ calls < MaxCalls)

Put(type, value, app) ==
    /\ buffer' = app.buffer
    /\ index' = app.index
    /\ fields' = Append(fields, [type |-> type, value |-> value,
                                 start |-> index, end |-> app.index])
    /\ last' = [NoCall EXCEPT !.op = "append_" \o type, !.c0 = index, !.ret = value]
    /\ calls' = IF phase = "free" THEN calls + 1 ELSE calls
    /\ UNCHANGED <<buffer_len, decoded, phase>>

Call_buffer_append_bool ==
    /\ MayAppend(1, MaxFields)
    /\ \E value \in BOOLEAN :
          Put("bool", value, buffer_append_bool(buffer, value, index))

Call_buffer_append_int16 ==
    /\ MayAppend(2, MaxFields)
    /\ \E number \in Int16Samples :
          Put("int16", number, buffer_append_int16(buffer, number, index))

Call_buffer_append_uint16 ==
    /\ MayAppend(2, MaxFields)
    /\ \E number \in Uint16Samples :
          Put("uint16", number, buffer_append_uint16(buffer, number, index))

Call_buffer_append_int32 ==
    /\ MayAppend(4, MaxFields)
    /\ \E number \in Int32Samples :
          Put("int32", number, buffer_append_int32(buffer, number, index))

Call_buffer_append_uint32 ==
    /\ MayAppend(4, MaxFields)
    /\ \E number \in Uint32Samples :
          Put("uint32", number, buffer_append_uint32(buffer, number, index))

Call_buffer_append_float32_auto ==
    /\ MayAppend(4, MaxAutoFields)
    /\ \E number \in FloatSamples :
          Put("float32_auto", number,
              buffer_append_float32_auto(buffer, number, index))

\* The caller sets the cursor back: a consumer of a finished message to
\* its start, a free caller to the start of the field it has just written.
Rewind ==
    /\ last.op \in AppendOps
    /\ phase \in {"free", "encode"}
    /\ index' = IF phase = "encode" THEN 0 ELSE last.c0
    /\ phase' = IF phase = "encode" THEN "decode" ELSE phase
    /\ UNCHANGED <<buffer, buffer_len, last, fields, decoded, calls>>

Next ==
    \/ Call_buffer_get_int16
    \/ Call_buffer_get_uint16
    \/ Call_buffer_get_int32
    \/ Call_buffer_get_uint32
    \/ Call_buffer_get_float16
    \/ Call_buffer_get_float32
    \/ Call_buffer_get_float32_auto
    \/ Call_buffer_get_bool
    \/ Call_buffer_get_int16_safe
    \/ Call_buffer_get_uint16_safe
    \/ Call_buffer_get_int32_safe
    \/ Call_buffer_get_uint32_safe
    \/ Call_buffer_get_float16_safe
    \/ Call_buffer_get_float32_safe
    \/ Call_buffer_get_float32_auto_safe
    \/ Call_buffer_get_bool_safe
    \/ Call_buffer_append_bool
    \/ Rewind

Spec == Init /\ [][Next]_vars

\* A producer appends integer and boolean fields from cursor 0, then a
\* consumer reads them back from cursor 0 with the matching getters.
InitRT ==
    /\ buffer_len \in {MaxSafeLen, LegacyLimit}
    /\ buffer \in {[null |-> FALSE, mem |-> PatternMem(BytePattern, sh, buffer_len)] :
                     sh \in Shifts}
    /\ index = 0
    /\ last = NoCall
    /\ fields = <<>>
    /\ decoded = 0
    /\ phase = "encode"
    /\ calls = 0

NextRT ==
    \/ Call_buffer_append_int16
    \/ Call_buffer_append_uint16
    \/ Call_buffer_append_int32
    \/ Call_buffer_append_uint32
    \/ Call_buffer_append_bool
    \/ Rewind
    \/ Call_buffer_get_int16
    \/ Call_buffer_get_uint16
    \/ Call_buffer_get_int32
    \/ Call_buffer_get_uint32
    \/ Call_buffer_get_bool
    \/ Call_buffer_get_int16_safe
    \/ Call_buffer_get_uint16_safe
    \/ Call_buffer_get_int32_safe
    \/ Call_buffer_get_uint32_safe
    \/ Call_buffer_get_bool_safe

SpecRT == InitRT /\ [][NextRT]_vars

\* A producer appends float32_auto fields, a consumer reads them back.
NextAuto ==
    \/ Call_buffer_append_float32_auto
    \/ Rewind
    \/ Call_buffer_get_float32_auto
    \/ Call_buffer_get_float32_auto_safe

SpecAuto == InitRT /\ [][NextAuto]_vars


\* ---------------------------------------------------------------- claims
Width(op) ==
    IF op \in {"int16", "uint16", "float16"} THEN 2
    ELSE IF op = "bool" THEN 1 ELSE 4

\* The last call was a getter call with a cursor (a non-null index).
GotWithCursor == last.op \in GetOps /\ ~last.ixnull

\* ret is the zero value of the type op returns (0, 0.0 or false).
IsZeroValue(op, ret) ==
    IF op \in {"int16", "uint16", "int32"} THEN ret = 0
    ELSE IF op = "uint32" THEN ret = U32Zero
    ELSE IF op = "bool" THEN ret = FALSE
    ELSE FIsZero(ret)

ValidScale(scale) == ~FIsZero(scale) /\ isfinite(scale)

\* The call could not read its field: c0 + width > limit.
PastLimit == last.c0 > last.limit - Width(last.op)

\* C1, bounds safety: a getter of width w called with cursor c such that
\* c + w > L (L = 1024 for the legacy family, buffer_len for the safe one)
\* reads no buffer index outside 0..L-1 and returns the zero value.
C1_BoundsSafety ==
    (GotWithCursor /\ last.op # "float16" /\ PastLimit)
      => /\ \A i \in last.reads : 0 <= i /\ i < last.limit
         /\ IsZeroValue(last.op, last.ret)

\* What C1 comes to where cursor + width does not overflow an int32_t.
C1_BoundsSafetyNoOverflow ==
    (GotWithCursor /\ last.op # "float16" /\ PastLimit
       /\ ~Overflows(last.c0, Width(last.op)))
      => /\ last.reads = {}
         /\ IsZeroValue(last.op, last.ret)

\* C2, cursor invariant: after any decode call the cursor is in 0..limit.
C2_CursorInvariant ==
    GotWithCursor => (0 <= index /\ index <= last.limit)

\* C3, clamp policy: when the buffer is null, the cursor negative or
\* cursor + width > limit, a getter of width >= 2 (float16 and float32 with
\* a valid scale) returns zero and leaves the cursor at limit; get_bool
\* returns false and leaves original + 1 when original < limit, and the
\* original otherwise.
C3_ClampPolicy ==
    (GotWithCursor /\ (buffer.null \/ last.c0 < 0 \/ PastLimit)
       /\ (last.op \in {"float16", "float32"} => ValidScale(last.scale)))
      => IF last.op = "bool"
           THEN /\ last.ret = FALSE
                /\ index = IF last.c0 < last.limit THEN last.c0 + 1 ELSE last.c0
           ELSE /\ IsZeroValue(last.op, last.ret)
                /\ index = last.limit

\* C4, invalid scale: get_float32 with a zero or non-finite scale and
\* 0 <= c, c + 4 <= limit returns 0.0, reads nothing and leaves c + 4.
C4_InvalidScalePolicy ==
    (GotWithCursor /\ last.op = "float32" /\ ~ValidScale(last.scale)
       /\ 0 <= last.c0 /\ last.c0 <= last.limit - 4)
      => /\ last.ret = FZero
         /\ last.reads = {}
         /\ index = last.c0 + 4

\* What C4 comes to for a buffer that is not null.
C4_InvalidScaleNonNull ==
    (GotWithCursor /\ last.op = "float32" /\ ~ValidScale(last.scale)
       /\ 0 <= last.c0 /\ last.c0 <= last.limit - 4 /\ ~buffer.null)
      => /\ last.ret = FZero
         /\ last.reads = {}
         /\ index = last.c0 + 4

\* The outcomes of the _safe getter op.
SafeOutcomes(op, b, scale, ix, len) ==
    CASE op = "int16" -> buffer_get_int16_safe(b, ix, len)
      [] op = "uint16" -> buffer_get_uint16_safe(b, ix, len)
      [] op = "int32" -> buffer_get_int32_safe(b, ix, len)
      [] op = "uint32" -> buffer_get_uint32_safe(b, ix, len)
      [] op = "float16" -> buffer_get_float16_safe(b, scale, ix, len)
      [] op = "float32" -> buffer_get_float32_safe(b, scale, ix, len)
      [] op = "float32_auto" -> buffer_get_float32_auto_safe(b, ix, len)
      [] op = "bool" -> buffer_get_bool_safe(b, ix, len)

\* C7, legacy/safe equivalence: what a legacy getter returned and left in
\* the cursor is what its _safe counterpart, called with buffer_len = 1024
\* on the same buffer, cursor and scale, returns and leaves.
C7_LegacySafeEquivalence ==
    (GotWithCursor /\ last.family = "legacy")
      => \E o \in SafeOutcomes(last.op, buffer, last.scale,
                               IndexRef(last.c0), LegacyLimit) :
            o.ret = last.ret /\ o.index = index

\* C8, success path: an integer getter of width w called with a buffer,
\* a cursor c >= 0 and c + w <= limit returns the value of its type whose
\* bytes, most significant first, are buffer[c..c+w-1], reads exactly those
\* indices and leaves c + w.
C8_SuccessPathDecode ==
    (GotWithCursor /\ last.op \in {"int16", "uint16", "int32", "uint32"}
       /\ ~buffer.null /\ 0 <= last.c0 /\ last.c0 <= last.limit - Width(last.op))
      => LET c == last.c0
             w == Width(last.op)
             r == last.ret
             m == buffer.mem
         IN  /\ index = c + w
             /\ last.reads = c..(c + w - 1)
             /\ last.op = "int16" =>
                  /\ -32768 <= r /\ r <= 32767
                  /\ ByteAt(r, 8) = m[c] /\ ByteAt(r, 0) = m[c + 1]
             /\ last.op = "uint16" =>
                  /\ 0 <= r /\ r <= 65535
                  /\ ByteAt(r, 8) = m[c] /\ ByteAt(r, 0) = m[c + 1]
             /\ last.op = "int32" =>
                  /\ ByteAt(r, 24) = m[c] /\ ByteAt(r, 16) = m[c + 1]
                  /\ ByteAt(r, 8) = m[c + 2] /\ ByteAt(r, 0) = m[c + 3]
             /\ last.op = "uint32" =>
                  /\ r.hi = m[c] * 256 + m[c + 1]
                  /\ r.lo = m[c + 2] * 256 + m[c + 3]

\* A legacy int32 read of a negative value from the last four bytes.
C8_Witness ==
    /\ GotWithCursor /\ last.op = "int32" /\ last.family = "legacy"
    /\ ~buffer.null /\ last.c0 = LegacyLimit - 4
    /\ last.ret < 0 /\ index = LegacyLimit

\* C9, booleans: get_bool with a buffer and 0 <= c < limit returns true
\* exactly when buffer[c] is 1 and leaves c + 1; append_bool writes the byte
\* 0 or 1, and get_bool at the cursor of an append_bool(v) returns v.
C9_BoolDecoding ==
    /\ (GotWithCursor /\ last.op = "bool" /\ ~buffer.null
          /\ 0 <= last.c0 /\ last.c0 < last.limit)
         => /\ last.ret = (buffer.mem[last.c0] = 1)
            /\ index = last.c0 + 1
            /\ (fields # <<>> /\ fields[Len(fields)].start = last.c0)
                 => last.ret = fields[Len(fields)].value
    /\ last.op = "append_bool"
         => /\ buffer.mem[last.c0] = (IF last.ret THEN 1 ELSE 0)
            /\ fields[Len(fields)].end = last.c0 + 1

\* get_bool has read back the true that append_bool wrote over another byte.
C9_Witness ==
    /\ GotWithCursor /\ last.op = "bool" /\ last.family = "legacy"
    /\ fields # <<>> /\ fields[Len(fields)].start = last.c0
    /\ fields[Len(fields)].value = TRUE /\ last.ret = TRUE

\* get_bool has decoded a byte that is neither 0 nor 1.
C9_WitnessOtherByte ==
    /\ GotWithCursor /\ last.op = "bool" /\ ~buffer.null
    /\ 0 <= last.c0 /\ last.c0 < last.limit
    /\ buffer.mem[last.c0] = 2 /\ last.ret = FALSE

C10_StickyNoOverflow ==
    [][(/\ GotWithCursor /\ index >= last.limit
        /\ calls' = calls + 1
        /\ last'.op \in GetOps /\ ~last'.ixnull
        /\ last'.family = last.family
        /\ (last'.op = "float16" => ValidScale(last'.scale))
        /\ ~Overflows(index, 4))
       => /\ IsZeroValue(last'.op, last'.ret)
          /\ last'.reads = {}
          /\ index' >= last'.limit]_vars

\* C5, in-order round trip: each field read back with the matching getter
\* is the value appended, and the decode cursor after it is the encode
\* cursor after it, the field's width past where the getter started.
C5_RoundTrip ==
    (phase = "decode" /\ decoded >= 1)
      => LET f == fields[decoded]
         IN  /\ last.op = f.type
             /\ last.ret = f.value
             /\ index = f.end
             /\ last.c0 = f.start
             /\ index = last.c0 + Width(f.type)

\* A bool and a negative int32 that fill a short buffer to its last byte
\* have been read back by the _safe getters.
C5_Witness ==
    /\ phase = "decode" /\ decoded = 2 /\ Len(fields) = 2
    /\ fields[1].type = "bool" /\ fields[2].type = "int32"
    /\ fields[2].value < 0
    /\ last.family = "safe" /\ index = buffer_len

\* C6, float32_auto round trip: a finite float of magnitude >= 1.5e-38 is
\* written as the word of sign bit, frexp exponent + 126 and 23 fraction
\* bits and read back unchanged; a smaller one is written as the zero word
\* and read back as 0.0.  Both calls move the cursor by 4.
C6_AutoFloatRoundTrip ==
    (phase = "decode" /\ decoded >= 1 /\ fields[decoded].type = "float32_auto")
      => LET f  == fields[decoded]
             v  == f.value
             m  == buffer.mem
             s  == f.start
             fr == frexpf(v)
         IN  /\ f.end = s + 4 /\ last.c0 = s /\ index = s + 4
             /\ IF BelowFlushLimit(v)
                  THEN /\ last.ret = FZero
                       /\ \A k \in 0..3 : m[s + k] = 0
                  ELSE /\ last.ret = v
                       /\ m[s] = (IF v.neg THEN 128 ELSE 0) + (fr.e + 126) \div 2
                       /\ m[s + 1] = ((fr.e + 126) % 2) * 128
                                       + (fr.m - 8388608) \div 65536
                       /\ m[s + 2] = ((fr.m - 8388608) \div 256) % 256
                       /\ m[s + 3] = (fr.m - 8388608) % 256

\* The least negative float of magnitude >= 1.5e-38 has been read back by
\* the legacy getter.
C6_Witness ==
    /\ phase = "decode" /\ decoded = 1 /\ last.family = "legacy"
    /\ fields[1].type = "float32_auto"
    /\ fields[1].value = [neg |-> TRUE, E |-> 1, frac |-> 2315750]
    /\ last.ret = fields[1].value

====
